---------------------------- MODULE Spec2Model ----------------------------
(***************************************************************************)
(* The marketplace command core: the Repository (three keyed stores and    *)
(* the listing-ID counter), the User / Listing / Category operations and   *)
(* the six command handlers, with the command loop of main.py around them. *)
(*                                                                         *)
(* Text (usernames, category names, argument tokens) is a sequence of      *)
(* character codes, so that lower(), int(), float(), str() and string      *)
(* comparison are computed the way Python computes them.                   *)
(***************************************************************************)
EXTENDS Integers, Sequences, FiniteSets, TLC

VARIABLES
    users,            \* Repository.users: lowercase username -> User
    listings,         \* Repository.listings: listing_id -> Listing
    categories,       \* Repository.categories: category name -> Category
    next_listing_id,  \* Repository.next_listing_id
    cmd,              \* the command line dispatched last: [name, args]
    result,           \* what its handler did: returned a string, or raised
    running,          \* the command loop of main() is still reading input
    issued,           \* history: the IDs returned by CREATE_LISTING, in order
    registered,       \* history: the usernames REGISTER answered "Success" to
    deleted,          \* history: the IDs DELETE_LISTING answered "Success" to
    priced,           \* history: the price text each stored listing was created with
    proc,             \* per thread: where it stands inside Listing.create / delete
    exclusive         \* a command is handled completely before another begins

vars == <<users, listings, categories, next_listing_id, cmd, result, running,
          issued, registered, deleted, priced, proc, exclusive>>

repoVars == <<users, listings, categories, next_listing_id>>

(***************************************************************************)
(* Bounds of the model.                                                    *)
(***************************************************************************)
MaxListings == 2      \* creations explored by Spec
MaxTopListings == 3   \* creations explored by SpecTop
MaxSortListings == 3  \* creations explored by SpecSort
MaxRaceListings == 1  \* counter values at which SpecRace begins a creation
TicksPerSecond == 2   \* clock readings per second shown by format_time

FirstListingId == 100001

(***************************************************************************)
(* Text.                                                                   *)
(***************************************************************************)
IsUpper(c) == c \in 65..90
IsDigit(c) == c \in 48..57

\* str.lower() on ASCII text
Lower(s) == [i \in 1..Len(s) |-> IF IsUpper(s[i]) THEN s[i] + 32 ELSE s[i]]

\* Python's < on strings: by code point, a proper prefix is smaller
RECURSIVE StrLess(_, _)
StrLess(a, b) ==
    IF b = <<>> THEN FALSE
    ELSE IF a = <<>> THEN TRUE
    ELSE IF a[1] # b[1] THEN a[1] < b[1]
    ELSE StrLess(Tail(a), Tail(b))

RECURSIVE DigitsOf(_)
DigitsOf(n) == IF n < 10 THEN <<48 + n>> ELSE Append(DigitsOf(n \div 10), 48 + (n % 10))

\* str(int)
Str(n) == IF n < 0 THEN <<45>> \o DigitsOf(-n) ELSE DigitsOf(n)

RECURSIVE DigitsValue(_)
DigitsValue(s) ==
    IF s = <<>> THEN 0
    ELSE 10 * DigitsValue(SubSeq(s, 1, Len(s) - 1)) + (s[Len(s)] - 48)

AllDigits(s) == \A i \in 1..Len(s) : IsDigit(s[i])

HasSign(s) == s # <<>> /\ s[1] \in {43, 45}
Unsigned(s) == IF HasSign(s) THEN Tail(s) ELSE s
IsMinus(s) == s # <<>> /\ s[1] = 45

\* int(text): an optional sign and one or more digits; ok = FALSE is ValueError
ParseInt(s) ==
    LET d == Unsigned(s) IN
    IF d # <<>> /\ AllDigits(d)
    THEN [ok |-> TRUE, v |-> IF IsMinus(s) THEN -DigitsValue(d) ELSE DigitsValue(d)]
    ELSE [ok |-> FALSE, v |-> 0]

(***************************************************************************)
(* Floats.  A float is [kind, v]: kind "fin" with v the value in           *)
(* hundredths, kind "inf" with v the sign, or kind "nan".                  *)
(***************************************************************************)
Fin(v) == [kind |-> "fin", v |-> v]
Inf(sign) == [kind |-> "inf", v |-> sign]
NaN == [kind |-> "nan", v |-> 0]
NotAFloat == [kind |-> "fail", v |-> 0]

DotAt(s) == IF \E i \in 1..Len(s) : s[i] = 46
            THEN CHOOSE i \in 1..Len(s) : s[i] = 46 /\ \A j \in 1..(i - 1) : s[j] # 46
            ELSE 0

Hundredths(frac) ==
    IF Len(frac) = 0 THEN 0
    ELSE IF Len(frac) = 1 THEN 10 * (frac[1] - 48)
    ELSE 10 * (frac[1] - 48) + (frac[2] - 48)

\* float(text): [sign] digits [. digits] with at most two decimals here,
\* or [sign] inf | infinity | nan in any letter case; "fail" is ValueError
ParseFloat(s) ==
    LET body == Unsigned(s)
        word == Lower(body)
        sign == IF IsMinus(s) THEN -1 ELSE 1
        dot == DotAt(body)
        whole == IF dot = 0 THEN body ELSE SubSeq(body, 1, dot - 1)
        frac == IF dot = 0 THEN <<>> ELSE SubSeq(body, dot + 1, Len(body))
    IN  IF word = <<110, 97, 110>> THEN NaN
        ELSE IF word = <<105, 110, 102>> \/ word = <<105, 110, 102, 105, 110, 105, 116, 121>>
             THEN Inf(sign)
        ELSE IF AllDigits(whole) /\ AllDigits(frac) /\ Len(whole) + Len(frac) > 0
                /\ Len(frac) <= 2
             THEN Fin(sign * (100 * DigitsValue(whole) + Hundredths(frac)))
        ELSE NotAFloat

\* x < y on floats: every comparison with nan is False
FloatLess(x, y) ==
    IF x.kind = "nan" \/ y.kind = "nan" THEN FALSE
    ELSE IF x.kind = "inf" THEN x.v < 0 /\ ~(y.kind = "inf" /\ y.v < 0)
    ELSE IF y.kind = "inf" THEN y.v > 0
    ELSE x.v < y.v

\* faulty variant: the nearest integer instead of the integer part
IntOfFloat_rounded(x) ==
    IF x.kind = "nan" THEN [exc |-> "ValueError", v |-> 0]
    ELSE IF x.kind = "inf" THEN [exc |-> "OverflowError", v |-> 0]
    ELSE [exc |-> "", v |-> IF x.v >= 0 THEN (x.v + 50) \div 100 ELSE -((50 - x.v) \div 100)]
\* int(float): truncation toward zero; nan raises ValueError, inf OverflowError
IntOfFloat(x) ==
    IF x.kind = "nan" THEN [exc |-> "ValueError", v |-> 0]
    ELSE IF x.kind = "inf" THEN [exc |-> "OverflowError", v |-> 0]
    ELSE [exc |-> "", v |-> IF x.v >= 0 THEN x.v \div 100 ELSE -((-x.v) \div 100)]

(***************************************************************************)
(* Repository (storage/repository.py).  R is the repository as a record.   *)
(***************************************************************************)
Repo == [users |-> users, listings |-> listings, categories |-> categories,
         next_listing_id |-> next_listing_id]

EmptyRepo == [users |-> <<>>, listings |-> <<>>, categories |-> <<>>,
              next_listing_id |-> FirstListingId]

Put(f, k, v) == [x \in DOMAIN f \cup {k} |-> IF x = k THEN v ELSE f[x]]
Drop(f, k) == [x \in DOMAIN f \ {k} |-> f[x]]

\* faulty variant: the key keeps the casing
User_username_key_exact(user) == user.username
User_username_key(user) == Lower(user.username)

Repository_save_user(R, user) == [R EXCEPT !.users = Put(@, User_username_key(user), user)]
\* faulty variant: the lookup compares the casing too
Repository_user_exists_case_sensitive(R, username) ==
    \E k \in DOMAIN R.users : R.users[k].username = username
Repository_user_exists(R, username) == Lower(username) \in DOMAIN R.users
\* used where Repository_user_exists holds; the None that get_user returns
\* otherwise is the other branch of that test
Repository_get_user(R, username) == R.users[Lower(username)]

Repository_save_listing(R, listing) == [R EXCEPT !.listings = Put(@, listing.listing_id, listing)]
Repository_has_listing(R, listing_id) == listing_id \in DOMAIN R.listings
Repository_get_listing(R, listing_id) == R.listings[listing_id]
Repository_delete_listing(R, listing_id) ==
    IF listing_id \in DOMAIN R.listings
    THEN [R EXCEPT !.listings = Drop(@, listing_id)]
    ELSE R

\* faulty variant: the ID after the greatest stored one
Repository_get_next_listing_id_reusing(R) ==
    LET live == DOMAIN R.listings
        id == IF live = {} THEN FirstListingId
              ELSE 1 + (CHOOSE m \in live : \A n \in live : n <= m)
    IN  [id |-> id, repo |-> [R EXCEPT !.next_listing_id = id + 1]]
Repository_get_next_listing_id(R) ==
    [id |-> R.next_listing_id,
     repo |-> [R EXCEPT !.next_listing_id = @ + 1]]

\* faulty variant: the key is the name in lowercase
Repository_save_category_lowercased(R, category) ==
    [R EXCEPT !.categories = Put(@, Lower(category.name), category)]
Repository_save_category(R, category) == [R EXCEPT !.categories = Put(@, category.name, category)]
Repository_has_category(R, name) == name \in DOMAIN R.categories
Repository_get_category(R, name) == R.categories[name]
Repository_get_all_categories(R) == R.categories

(***************************************************************************)
(* What a handler does: it returns one string, or an exception leaves it.  *)
(* kind "error" is a returned string that begins with "Error - ".          *)
(***************************************************************************)
Outcome(kind, msg, text, lines) == [kind |-> kind, msg |-> msg, text |-> text, lines |-> lines]
Success == Outcome("success", "Success", <<>>, <<>>)
Error(msg) == Outcome("error", msg, <<>>, <<>>)
ReturnsText(kind, text) == Outcome(kind, "", text, <<>>)
ReturnsLines(lines) == Outcome("lines", "", <<>>, lines)
Raises(exc) == Outcome(exc, "", <<>>, <<>>)
NoOutcome == Outcome("none", "", <<>>, <<>>)

Handled(R, res) == [repo |-> R, res |-> res]

(***************************************************************************)
(* User (models/user.py) and REGISTER (commands/user_commands.py).         *)
(***************************************************************************)
NewUser(username) == [username |-> username, listing_ids |-> {}]

User_exists(R, username) == Repository_user_exists(R, username)

\* faulty variant: the record is written before the test
User_register_overwriting(R, username) ==
    [err |-> User_exists(R, username), repo |-> Repository_save_user(R, NewUser(username))]
\* err = TRUE is ValueError("User already exists")
User_register(R, username) ==
    IF User_exists(R, username)
    THEN [err |-> TRUE, repo |-> R]
    ELSE [err |-> FALSE, repo |-> Repository_save_user(R, NewUser(username))]

UserCommand_register(R, args) ==
    IF Len(args) # 1 THEN Handled(R, Error("Error - invalid arguments"))
    ELSE LET r == User_register(R, args[1]) IN
         IF r.err THEN Handled(r.repo, Error("Error - user already existing"))
         ELSE Handled(r.repo, Success)

(***************************************************************************)
(* Category (models/category.py).                                          *)
(***************************************************************************)
NewCategory(name) == [name |-> name, listing_ids |-> {}]

Category_add_listing(category, listing_id) ==
    [category EXCEPT !.listing_ids = @ \cup {listing_id}]
\* faulty variant: the category keeps the ID
Category_remove_listing_forgotten(category, listing_id) == category
Category_remove_listing(category, listing_id) ==
    [category EXCEPT !.listing_ids = @ \ {listing_id}]
Category_get_listing_count(category) == Cardinality(category.listing_ids)
Category_has_listings(category) == Cardinality(category.listing_ids) > 0

\* The orders in which iterating a set may yield its elements
Orders(S) == {o \in [1..Cardinality(S) -> S] : \A i, j \in DOMAIN o : i # j => o[i] # o[j]}

\* order: the order in which the iteration of self.listing_ids yields the IDs
Category_get_listings(category, R, order) ==
    LET live == SelectSeq(order, LAMBDA id : Repository_has_listing(R, id))
    IN  [i \in 1..Len(live) |-> Repository_get_listing(R, live[i])]

\* the pair (count, name) compared as Python compares tuples
TopKeyLess(a, b) ==
    a.count < b.count \/ (a.count = b.count /\ StrLess(a.name, b.name))

\* none = TRUE is the None returned
Category_get_top_category(R) ==
    LET cats == Repository_get_all_categories(R)
        nonEmpty == {[name |-> n, count |-> Category_get_listing_count(cats[n])] :
                    n \in {m \in DOMAIN cats : Category_has_listings(cats[m])}}
    IN  IF DOMAIN cats = {} \/ nonEmpty = {}
        THEN [none |-> TRUE, name |-> <<>>]
        ELSE [none |-> FALSE,
              name |-> (CHOOSE x \in nonEmpty : \A y \in nonEmpty : ~TopKeyLess(x, y)).name]

(***************************************************************************)
(* Listing (models/listing.py).                                            *)
(***************************************************************************)
User_add_listing(user, listing_id) ==
    [user EXCEPT !.listing_ids = @ \cup {listing_id}]
\* faulty variant: the user keeps the ID
User_remove_listing_forgotten(user, listing_id) == user
User_remove_listing(user, listing_id) ==
    [user EXCEPT !.listing_ids = @ \ {listing_id}]

\* faulty variant: only the unparsable price is rejected
InvalidPrice_unparsable_only(price_float) == price_float.kind = "fail"
\* float(price) raises, or price_float < 0
InvalidPrice(price_float) ==
    price_float.kind = "fail" \/ FloatLess(price_float, Fin(0))

\* faulty variant: the ID is taken before the user is looked up
Listing_create_id_first(R, username, title, description, price, category, now) ==
    LET price_float == ParseFloat(price)
        next == Repository_get_next_listing_id(R)
    IN
    IF InvalidPrice(price_float)
    THEN [err |-> "Error - invalid price", repo |-> R, listing_id |-> 0]
    ELSE IF ~Repository_user_exists(R, username)
    THEN [err |-> "Error - unknown user", repo |-> next.repo, listing_id |-> 0]
    ELSE
    LET listing == [listing_id |-> next.id, username |-> username,
                    title |-> title, description |-> description,
                    price |-> price_float, category |-> category,
                    creation_time |-> now]
        R1 == Repository_save_listing(next.repo, listing)
        R2 == Repository_save_user(R1,
                  User_add_listing(Repository_get_user(R, username), next.id))
        category_obj == IF Repository_has_category(R2, category)
                        THEN Repository_get_category(R2, category)
                        ELSE NewCategory(category)
        R3 == Repository_save_category(R2, Category_add_listing(category_obj, next.id))
    IN  [err |-> "", repo |-> R3, listing_id |-> next.id]
\* now: the reading of datetime.now().  err # "" is the ValueError raised.
Listing_create(R, username, title, description, price, category, now) ==
    LET price_float == ParseFloat(price) IN
    IF InvalidPrice(price_float)
    THEN [err |-> "Error - invalid price", repo |-> R, listing_id |-> 0]
    ELSE IF ~Repository_user_exists(R, username)
    THEN [err |-> "Error - unknown user", repo |-> R, listing_id |-> 0]
    ELSE
    LET user == Repository_get_user(R, username)
        next == Repository_get_next_listing_id(R)
        listing_id == next.id
        listing == [listing_id |-> listing_id, username |-> username,
                    title |-> title, description |-> description,
                    price |-> price_float, category |-> category,
                    creation_time |-> now]
        R1 == Repository_save_listing(next.repo, listing)
        R2 == Repository_save_user(R1, User_add_listing(user, listing_id))
        category_obj == IF Repository_has_category(R2, category)
                        THEN Repository_get_category(R2, category)
                        ELSE NewCategory(category)
        R3 == Repository_save_category(R2, Category_add_listing(category_obj, listing_id))
    IN  [err |-> "", repo |-> R3, listing_id |-> listing_id]

\* faulty variant: a category left without listings loses its record
Listing_delete_dropping_category(listing, R) ==
    LET R1 == IF Repository_user_exists(R, listing.username)
              THEN Repository_save_user(R,
                       User_remove_listing(Repository_get_user(R, listing.username),
                                           listing.listing_id))
              ELSE R
        left == IF Repository_has_category(R1, listing.category)
                THEN Category_remove_listing(Repository_get_category(R1, listing.category),
                                             listing.listing_id)
                ELSE NewCategory(listing.category)
        R2 == IF ~Repository_has_category(R1, listing.category) THEN R1
              ELSE IF Category_has_listings(left) THEN Repository_save_category(R1, left)
              ELSE [R1 EXCEPT !.categories = Drop(@, listing.category)]
    IN  Repository_delete_listing(R2, listing.listing_id)
Listing_delete(listing, R) ==
    LET R1 == IF Repository_user_exists(R, listing.username)
              THEN Repository_save_user(R,
                       User_remove_listing(Repository_get_user(R, listing.username),
                                           listing.listing_id))
              ELSE R
        R2 == IF Repository_has_category(R1, listing.category)
              THEN Repository_save_category(R1,
                       Category_remove_listing(Repository_get_category(R1, listing.category),
                                               listing.listing_id))
              ELSE R1
    IN  Repository_delete_listing(R2, listing.listing_id)

\* faulty variant: the casing is compared too
Listing_is_owned_by_exact(listing, username) == listing.username = username
Listing_is_owned_by(listing, username) == Lower(listing.username) = Lower(username)

\* the sort keys, as floats so that one comparison serves both
Listing_get_sort_key_price(listing) == listing.price
Listing_get_sort_key_time(listing) == Fin(listing.creation_time)

\* strftime drops what is below the second; the text stands for the timestamp
Listing_format_time(listing) == Str(listing.creation_time \div TicksPerSecond)

\* The fields of the line, which the f-string joins with "|".
\* exc # "" is the exception int(self.price) raises.
Listing_to_output_string(listing) ==
    LET p == IntOfFloat(listing.price) IN
    [exc |-> p.exc,
     line |-> <<listing.title, listing.description, Str(p.v),
                Listing_format_time(listing), listing.category, listing.username>>]

(***************************************************************************)
(* Lists: list.sort(key=...), list.reverse() and "\n".join(...).           *)
(***************************************************************************)
SORT_PRICE == <<115, 111, 114, 116, 95, 112, 114, 105, 99, 101>>   \* "sort_price"
SORT_TIME == <<115, 111, 114, 116, 95, 116, 105, 109, 101>>        \* "sort_time"
ASC == <<97, 115, 99>>                                             \* "asc"
DSC == <<100, 115, 99>>                                            \* "dsc"

SortKey(listing, sort_type) ==
    IF sort_type = SORT_PRICE THEN Listing_get_sort_key_price(listing)
    ELSE Listing_get_sort_key_time(listing)

InsertAt(list, pos, x) ==
    SubSeq(list, 1, pos - 1) \o <<x>> \o SubSeq(list, pos, Len(list))

\* A stable ascending sort that compares keys with < only: each element goes
\* before the first element already placed whose key is greater than its own.
RECURSIVE list_sort(_, _)
list_sort(list, sort_type) ==
    IF Len(list) <= 1 THEN list
    ELSE LET init == list_sort(SubSeq(list, 1, Len(list) - 1), sort_type)
             x == list[Len(list)]
             after == {i \in 1..Len(init) :
                          FloatLess(SortKey(x, sort_type), SortKey(init[i], sort_type))}
             pos == IF after = {} THEN Len(init) + 1
                    ELSE CHOOSE i \in after : \A j \in after : i <= j
         IN  InsertAt(init, pos, x)

\* faulty variant: the list is left as it was
list_reverse_forgotten(list) == list
list_reverse(list) == [i \in 1..Len(list) |-> list[Len(list) + 1 - i]]

HasNaNKey(list, sort_type) ==
    \E i \in 1..Len(list) : SortKey(list[i], sort_type).kind = "nan"

\* The join evaluates to_output_string on the listings in order: the first
\* one that raises ends the handler with that exception.
JoinLines(list) ==
    LET outs == [i \in 1..Len(list) |-> Listing_to_output_string(list[i])]
        bad == {i \in 1..Len(list) : outs[i].exc # ""}
    IN  IF bad # {}
        THEN Raises(outs[CHOOSE i \in bad : \A j \in bad : i <= j].exc)
        ELSE ReturnsLines([i \in 1..Len(list) |-> outs[i].line])

(***************************************************************************)
(* ListingCommand (commands/listing_commands.py).                          *)
(***************************************************************************)
ListingCommand_create_listing(R, args, now) ==
    IF Len(args) # 5 THEN Handled(R, Error("Error - invalid arguments"))
    ELSE LET c == Listing_create(R, args[1], args[2], args[3], args[4], args[5], now) IN
         IF c.err # "" THEN Handled(c.repo, Error(c.err))
         ELSE Handled(c.repo, ReturnsText("id", Str(c.listing_id)))

ListingCommand_get_listing(R, args) ==
    IF Len(args) # 2 THEN Handled(R, Error("Error - invalid arguments"))
    ELSE IF ~User_exists(R, args[1]) THEN Handled(R, Error("Error - unknown user"))
    ELSE IF ~ParseInt(args[2]).ok THEN Handled(R, Error("Error - invalid listing ID"))
    ELSE IF ~Repository_has_listing(R, ParseInt(args[2]).v)
         THEN Handled(R, Error("Error - not found"))
    ELSE LET out == Listing_to_output_string(Repository_get_listing(R, ParseInt(args[2]).v))
         IN  IF out.exc # "" THEN Handled(R, Raises(out.exc))
             ELSE Handled(R, ReturnsLines(<<out.line>>))

ListingCommand_delete_listing(R, args) ==
    IF Len(args) # 2 THEN Handled(R, Error("Error - invalid arguments"))
    ELSE IF ~User_exists(R, args[1]) THEN Handled(R, Error("Error - unknown user"))
    ELSE IF ~ParseInt(args[2]).ok THEN Handled(R, Error("Error - invalid listing ID"))
    ELSE IF ~Repository_has_listing(R, ParseInt(args[2]).v)
         THEN Handled(R, Error("Error - listing does not exist"))
    ELSE LET listing == Repository_get_listing(R, ParseInt(args[2]).v) IN
         IF ~Listing_is_owned_by(listing, args[1])
         THEN Handled(R, Error("Error - listing owner mismatch"))
         ELSE Handled(Listing_delete(listing, R), Success)

(***************************************************************************)
(* CategoryCommand (commands/category_commands.py).                        *)
(***************************************************************************)
\* order: the iteration order of the category's listing_ids.
\* arranged: the order list.sort leaves the listings in when a key is nan
\* (its comparisons are then inconsistent and the result is unspecified).
CategoryCommand_get_category(R, args, order, arranged) ==
    IF Len(args) # 4 THEN Handled(R, Error("Error - invalid arguments"))
    ELSE IF ~User_exists(R, args[1]) THEN Handled(R, Error("Error - unknown user"))
    ELSE IF ~Repository_has_category(R, args[2])
         THEN Handled(R, Error("Error - category not found"))
    ELSE LET category == Repository_get_category(R, args[2])
             found == Category_get_listings(category, R, order)
             sorted == IF HasNaNKey(found, args[3])
                       THEN Category_get_listings(category, R, arranged)
                       ELSE list_sort(found, args[3])
         IN  IF Len(found) = 0 THEN Handled(R, Error("Error - category not found"))
             ELSE IF args[3] \notin {SORT_PRICE, SORT_TIME}
                  THEN Handled(R, Error("Error - invalid sort type"))
             ELSE IF args[4] = DSC THEN Handled(R, JoinLines(list_reverse(sorted)))
             ELSE IF args[4] # ASC THEN Handled(R, Error("Error - invalid sort order"))
             ELSE Handled(R, JoinLines(sorted))

\* "if not top_category" is true of None and of the empty string
CategoryCommand_get_top_category(R, args) ==
    IF Len(args) # 1 THEN Handled(R, Error("Error - invalid arguments"))
    ELSE IF ~User_exists(R, args[1]) THEN Handled(R, Error("Error - unknown user"))
    ELSE LET top_category == Category_get_top_category(R) IN
         IF top_category.none \/ top_category.name = <<>>
         THEN Handled(R, Error("Error - no categories found"))
         ELSE Handled(R, ReturnsText("category", top_category.name))

\* The iteration orders GET_CATEGORY may meet
CategoryOrders(R, args) ==
    IF Len(args) = 4 /\ Repository_has_category(R, args[2])
    THEN Orders(Repository_get_category(R, args[2]).listing_ids)
    ELSE {<<>>}

\* The pairs <<order, arranged>> one GET_CATEGORY may meet.  With a nan key
\* its outcome depends on arranged alone and without one on order alone, so
\* the pairs <<o, o>> give every outcome.
SortChoices(R, args) == {<<o, o>> : o \in CategoryOrders(R, args)}

(***************************************************************************)
(* The command loop (main.py): one command is dispatched and handled       *)
(* completely before the next is read.  A ValueError that leaves a handler *)
(* is caught and printed by the loop; any other exception ends the process.*)
(***************************************************************************)
\* The command loop is the one thread of the program.
Threads == {1}

\* The threads that would run commands side by side if the handlers were
\* called from more than one; the command loop is the first of them.
Workers == {1, 2}

NoListing ==
    [listing_id |-> 0, username |-> <<>>, title |-> <<>>, description |-> <<>>,
     price |-> Fin(0), category |-> <<>>, creation_time |-> 0]

\* The locals of a thread.  user is the key of the User object it holds (the
\* object stored under that key: get_user returns the stored object itself),
\* category_ref says whether category_obj is the stored object ("stored"),
\* a Category just constructed ("fresh"), one that was the stored object
\* until another was stored under its name ("orphan"), or None ("none").
Idle ==
    [op |-> "", pc |-> "idle", args |-> <<>>, now |-> 0, listing_id |-> 0,
     listing |-> NoListing, user |-> <<>>, has_user |-> FALSE,
     category_ref |-> "none", category_obj |-> NewCategory(<<>>)]

AllIdle == \A p \in DOMAIN proc : proc[p].pc = "idle"

\* main() calls one handler and prints its result before it reads the next
\* line: a command begins only when no other is under way.
Init ==
    /\ exclusive = TRUE
    /\ proc = [p \in Workers |-> Idle]
    /\ users = EmptyRepo.users
    /\ listings = EmptyRepo.listings
    /\ categories = EmptyRepo.categories
    /\ next_listing_id = EmptyRepo.next_listing_id
    /\ cmd = [name |-> "", args |-> <<>>]
    /\ result = NoOutcome
    /\ running = TRUE
    /\ issued = <<>>
    /\ registered = {}
    /\ deleted = {}
    /\ priced = <<>>

Step(name, args, h) ==
    /\ running
    /\ AllIdle
    /\ proc' = proc
    /\ exclusive' = exclusive
    /\ cmd' = [name |-> name, args |-> args]
    /\ result' = h.res
    /\ users' = h.repo.users
    /\ listings' = h.repo.listings
    /\ categories' = h.repo.categories
    /\ next_listing_id' = h.repo.next_listing_id
    /\ running' = (h.res.kind # "OverflowError")
    /\ issued' = IF name = "CREATE_LISTING" /\ h.res.kind = "id"
                 THEN Append(issued, ParseInt(h.res.text).v) ELSE issued
    /\ registered' = IF name = "REGISTER" /\ h.res.kind = "success"
                     THEN registered \cup {args[1]} ELSE registered
    /\ deleted' = IF name = "DELETE_LISTING" /\ h.res.kind = "success"
                  THEN deleted \cup {ParseInt(args[2]).v} ELSE deleted
    /\ priced' = IF name = "CREATE_LISTING" /\ h.res.kind = "id"
                 THEN Put(priced, ParseInt(h.res.text).v, args[4])
                 ELSE IF name = "DELETE_LISTING" /\ h.res.kind = "success"
                 THEN Drop(priced, ParseInt(args[2]).v)
                 ELSE priced

\* I: the argument lists, clock readings and creation bound of a specification
Register(I) ==
    \E args \in I.register : Step("REGISTER", args, UserCommand_register(Repo, args))

CreateListing(I) ==
    \E args \in I.create, now \in I.times :
        LET h == ListingCommand_create_listing(Repo, args, now) IN
        /\ h.res.kind = "id" => next_listing_id < FirstListingId + I.cap
        /\ Step("CREATE_LISTING", args, h)

GetListing(I) ==
    \E args \in I.get_listing :
        Step("GET_LISTING", args, ListingCommand_get_listing(Repo, args))

DeleteListing(I) ==
    \E args \in I.delete_listing :
        Step("DELETE_LISTING", args, ListingCommand_delete_listing(Repo, args))

GetCategory(I) ==
    \E args \in I.get_category :
        \E c \in SortChoices(Repo, args) :
            Step("GET_CATEGORY", args,
                 CategoryCommand_get_category(Repo, args, c[1], c[2]))

GetTopCategory(I) ==
    \E args \in I.get_top_category :
        Step("GET_TOP_CATEGORY", args, CategoryCommand_get_top_category(Repo, args))

(***************************************************************************)
(* Listing.create and Listing.delete one repository access at a time.      *)
(* A User or Category object read from the repository is the stored object *)
(* itself, so add_listing / remove_listing on it change the store at once  *)
(* and the save that follows stores the same object again.                 *)
(***************************************************************************)
\* The accesses of Listing.create in the order of the code, after the price
\* and the user were accepted
Listing_create_order ==
    <<"read_next_id", "bump_next_id", "save_listing", "add_to_user", "save_user",
      "get_category", "add_to_category", "save_category", "return">>

\* faulty variant: the record is removed first
Listing_delete_order_record_first ==
    <<"delete_listing", "get_user", "remove_from_user", "save_user",
      "get_category", "remove_from_category", "save_category", "return">>
\* The accesses of Listing.delete in the order of the code
Listing_delete_order ==
    <<"get_user", "remove_from_user", "save_user",
      "get_category", "remove_from_category", "save_category", "delete_listing",
      "return">>

After(order, pc) == order[(CHOOSE i \in 1..Len(order) : order[i] = pc) + 1]

At(p, op, pc) == running /\ proc[p].op = op /\ proc[p].pc = pc

\* the thread goes on to its next access with the locals l
Advance(p, order, l) ==
    proc' = [proc EXCEPT ![p] = [l EXCEPT !.pc = After(order, proc[p].pc)]]

UnchangedOutput ==
    UNCHANGED <<cmd, result, running, issued, registered, deleted, priced, exclusive>>

\* faulty variant: a thread begins a command whatever the others are doing
MayBegin_unguarded(p) == running /\ proc[p].pc = "idle"
\* thread p may begin a command
MayBegin(p) == running /\ proc[p].pc = "idle" /\ (exclusive => AllIdle)

\* ListingCommand.create_listing up to the user lookup of Listing.create:
\* a command refused there is complete, otherwise the accesses follow
Create_begin(p, I) ==
    \E args \in I.create, now \in I.times :
        LET h == ListingCommand_create_listing(Repo, args, now) IN
        IF h.res.kind # "id" THEN Step("CREATE_LISTING", args, h)
        ELSE /\ MayBegin(p)
             /\ next_listing_id < FirstListingId + I.cap
             /\ cmd' = [name |-> "CREATE_LISTING", args |-> args]
             /\ result' = NoOutcome
             /\ proc' = [proc EXCEPT ![p] =
                           [Idle EXCEPT !.op = "create", !.pc = Listing_create_order[1],
                                        !.args = args, !.now = now,
                                        !.user = Lower(args[1]), !.has_user = TRUE]]
             /\ UNCHANGED <<repoVars, running, issued, registered, deleted, priced,
                            exclusive>>

\* the Category object thread p holds: the one stored under its name, or
\* one of its own (just constructed, or no longer the stored one)
Held(p) ==
    IF proc[p].category_ref = "stored" THEN categories[proc[p].category_obj.name]
    ELSE proc[p].category_obj

\* the locals of thread q once another object is stored under name: if q
\* held the object stored there before, it goes on holding that object,
\* which is the stored one no longer
Displaced(q, name) ==
    IF proc[q].category_ref = "stored" /\ proc[q].category_obj.name = name
    THEN [proc[q] EXCEPT !.category_ref = "orphan", !.category_obj = categories[name]]
    ELSE proc[q]

\* thread p stores the object it holds under name and goes on
AdvanceStoring(p, order, name) ==
    proc' = [q \in DOMAIN proc |->
                IF q = p
                THEN [proc[p] EXCEPT !.pc = After(order, proc[p].pc),
                                     !.category_ref = "stored",
                                     !.category_obj = Held(p)]
                ELSE IF proc[p].category_ref = "stored" THEN proc[q]
                ELSE Displaced(q, name)]

\* listing_id = self.next_listing_id
Create_read_next_id(p) ==
    /\ At(p, "create", "read_next_id")
    /\ Advance(p, Listing_create_order, [proc[p] EXCEPT !.listing_id = next_listing_id])
    /\ UNCHANGED repoVars
    /\ UnchangedOutput

\* self.next_listing_id += 1
Create_bump_next_id(p) ==
    /\ At(p, "create", "bump_next_id")
    /\ next_listing_id' = next_listing_id + 1
    /\ Advance(p, Listing_create_order, proc[p])
    /\ UNCHANGED <<users, listings, categories>>
    /\ UnchangedOutput

\* listing = Listing(...); repo.save_listing(listing)
Create_save_listing(p) ==
    /\ At(p, "create", "save_listing")
    /\ LET l == proc[p]
           listing == [listing_id |-> l.listing_id, username |-> l.args[1],
                       title |-> l.args[2], description |-> l.args[3],
                       price |-> ParseFloat(l.args[4]), category |-> l.args[5],
                       creation_time |-> l.now]
       IN  /\ listings' = Repository_save_listing(Repo, listing).listings
           /\ Advance(p, Listing_create_order, [l EXCEPT !.listing = listing])
    /\ UNCHANGED <<users, categories, next_listing_id>>
    /\ UnchangedOutput

\* user.add_listing(listing_id), on the stored object
Create_add_to_user(p) ==
    /\ At(p, "create", "add_to_user")
    /\ users' = [users EXCEPT ![proc[p].user] = User_add_listing(@, proc[p].listing_id)]
    /\ Advance(p, Listing_create_order, proc[p])
    /\ UNCHANGED <<listings, categories, next_listing_id>>
    /\ UnchangedOutput

\* repo.save_user(user)
Create_save_user(p) ==
    /\ At(p, "create", "save_user")
    /\ users' = Repository_save_user(Repo, users[proc[p].user]).users
    /\ Advance(p, Listing_create_order, proc[p])
    /\ UNCHANGED <<listings, categories, next_listing_id>>
    /\ UnchangedOutput

\* category_obj = repo.get_category(category), or a new Category
Create_get_category(p) ==
    /\ At(p, "create", "get_category")
    /\ LET name == proc[p].args[5] IN
       Advance(p, Listing_create_order,
               IF Repository_has_category(Repo, name)
               THEN [proc[p] EXCEPT !.category_ref = "stored",
                                    !.category_obj = Repository_get_category(Repo, name)]
               ELSE [proc[p] EXCEPT !.category_ref = "fresh",
                                    !.category_obj = NewCategory(name)])
    /\ UNCHANGED repoVars
    /\ UnchangedOutput

\* category_obj.add_listing(listing_id)
Create_add_to_category(p) ==
    /\ At(p, "create", "add_to_category")
    /\ LET l == proc[p]
           added == Category_add_listing(Held(p), l.listing_id)
       IN  /\ categories' = IF l.category_ref = "stored"
                            THEN [categories EXCEPT ![l.args[5]] =
                                     Category_add_listing(@, l.listing_id)]
                            ELSE categories
           /\ Advance(p, Listing_create_order, [l EXCEPT !.category_obj = added])
    /\ UNCHANGED <<users, listings, next_listing_id>>
    /\ UnchangedOutput

\* repo.save_category(category_obj)
Create_save_category(p) ==
    /\ At(p, "create", "save_category")
    /\ categories' = Repository_save_category(Repo, Held(p)).categories
    /\ AdvanceStoring(p, Listing_create_order, proc[p].args[5])
    /\ UNCHANGED <<users, listings, next_listing_id>>
    /\ UnchangedOutput

\* return str(listing.listing_id)
Create_return(p) ==
    /\ At(p, "create", "return")
    /\ result' = ReturnsText("id", Str(proc[p].listing_id))
    /\ issued' = Append(issued, proc[p].listing_id)
    /\ priced' = Put(priced, proc[p].listing_id, proc[p].args[4])
    /\ proc' = [proc EXCEPT ![p] = Idle]
    /\ UNCHANGED <<repoVars, cmd, running, registered, deleted, exclusive>>

\* ListingCommand.delete_listing up to the ownership test
Delete_begin(p, I) ==
    \E args \in I.delete_listing :
        LET h == ListingCommand_delete_listing(Repo, args) IN
        IF h.res.kind # "success" THEN Step("DELETE_LISTING", args, h)
        ELSE /\ MayBegin(p)
             /\ cmd' = [name |-> "DELETE_LISTING", args |-> args]
             /\ result' = NoOutcome
             /\ proc' = [proc EXCEPT ![p] =
                           [Idle EXCEPT !.op = "delete", !.pc = Listing_delete_order[1],
                                        !.args = args,
                                        !.listing_id = ParseInt(args[2]).v,
                                        !.listing = Repository_get_listing(Repo,
                                                        ParseInt(args[2]).v)]]
             /\ UNCHANGED <<repoVars, running, issued, registered, deleted, priced,
                            exclusive>>

\* user = repo.get_user(self.username)
Delete_get_user(p) ==
    /\ At(p, "delete", "get_user")
    /\ Advance(p, Listing_delete_order,
               [proc[p] EXCEPT !.user = Lower(proc[p].listing.username),
                               !.has_user = Repository_user_exists(Repo,
                                                proc[p].listing.username)])
    /\ UNCHANGED repoVars
    /\ UnchangedOutput

\* if user: user.remove_listing(self.listing_id), on the stored object
Delete_remove_from_user(p) ==
    /\ At(p, "delete", "remove_from_user")
    /\ users' = IF proc[p].has_user
                THEN [users EXCEPT ![proc[p].user] =
                         User_remove_listing(@, proc[p].listing_id)]
                ELSE users
    /\ Advance(p, Listing_delete_order, proc[p])
    /\ UNCHANGED <<listings, categories, next_listing_id>>
    /\ UnchangedOutput

\* if user: repo.save_user(user)
Delete_save_user(p) ==
    /\ At(p, "delete", "save_user")
    /\ users' = IF proc[p].has_user
                THEN Repository_save_user(Repo, users[proc[p].user]).users
                ELSE users
    /\ Advance(p, Listing_delete_order, proc[p])
    /\ UNCHANGED <<listings, categories, next_listing_id>>
    /\ UnchangedOutput

\* category = repo.get_category(self.category)
Delete_get_category(p) ==
    /\ At(p, "delete", "get_category")
    /\ LET name == proc[p].listing.category IN
       Advance(p, Listing_delete_order,
               IF Repository_has_category(Repo, name)
               THEN [proc[p] EXCEPT !.category_ref = "stored",
                                    !.category_obj = Repository_get_category(Repo, name)]
               ELSE [proc[p] EXCEPT !.category_ref = "none"])
    /\ UNCHANGED repoVars
    /\ UnchangedOutput

\* if category: category.remove_listing(self.listing_id), on the stored object
Delete_remove_from_category(p) ==
    /\ At(p, "delete", "remove_from_category")
    /\ LET l == proc[p] IN
       /\ categories' = IF l.category_ref = "stored"
                        THEN [categories EXCEPT ![l.listing.category] =
                                 Category_remove_listing(@, l.listing_id)]
                        ELSE categories
       /\ Advance(p, Listing_delete_order,
                  [l EXCEPT !.category_obj =
                                Category_remove_listing(Held(p), l.listing_id)])
    /\ UNCHANGED <<users, listings, next_listing_id>>
    /\ UnchangedOutput

\* if category: repo.save_category(category)
Delete_save_category(p) ==
    /\ At(p, "delete", "save_category")
    /\ categories' = IF proc[p].category_ref = "none" THEN categories
                     ELSE Repository_save_category(Repo, Held(p)).categories
    /\ IF proc[p].category_ref = "none" THEN Advance(p, Listing_delete_order, proc[p])
       ELSE AdvanceStoring(p, Listing_delete_order, proc[p].listing.category)
    /\ UNCHANGED <<users, listings, next_listing_id>>
    /\ UnchangedOutput

\* repo.delete_listing(self.listing_id)
Delete_delete_listing(p) ==
    /\ At(p, "delete", "delete_listing")
    /\ listings' = Repository_delete_listing(Repo, proc[p].listing_id).listings
    /\ Advance(p, Listing_delete_order, proc[p])
    /\ UNCHANGED <<users, categories, next_listing_id>>
    /\ UnchangedOutput

\* return "Success"
Delete_return(p) ==
    /\ At(p, "delete", "return")
    /\ result' = Success
    /\ deleted' = deleted \cup {proc[p].listing_id}
    /\ priced' = Drop(priced, proc[p].listing_id)
    /\ proc' = [proc EXCEPT ![p] = Idle]
    /\ UNCHANGED <<repoVars, cmd, running, issued, registered, exclusive>>

(***************************************************************************)
(* The inputs explored.                                                    *)
(***************************************************************************)
Al == <<65, 108>>                       \* "Al"
AL == <<65, 76>>                        \* "AL"
Bo == <<66, 111>>                       \* "Bo"
al == <<97, 108>>                       \* "al"
Title == <<84>>                         \* "T"
Title2 == <<85>>                        \* "U"
Title3 == <<86>>                        \* "V"
Description == <<68>>                   \* "D"
Books == <<98, 111, 111, 107, 115>>     \* "books"
Tools == <<116, 111, 111, 108, 115>>    \* "tools"
BooksCap == <<66, 111, 111, 107, 115>>  \* "Books"
NoName == <<>>                          \* "", the token of a quoted empty string
P10 == <<49, 48>>                       \* "10"
P20 == <<50, 48>>                       \* "20"
P19_99 == <<49, 57, 46, 57, 57>>        \* "19.99"
P19_5 == <<49, 57, 46, 53>>             \* "19.5"
PMinus5 == <<45, 53>>                   \* "-5"
PInf == <<105, 110, 102>>               \* "inf"
PNan == <<110, 97, 110>>                \* "nan"
Junk == <<120>>                         \* "x"
NoArgs == <<>>

IdTexts(cap) == {Str(i) : i \in FirstListingId..(FirstListingId + cap - 1)}

CreateArgs(names, prices, cats) ==
    {<<u, Title, Description, p, c>> : u \in names, p \in prices, c \in cats}
IdArgs(names, texts) == {<<u, t>> : u \in names, t \in texts}
CategoryArgs(names, cats, sorts, orders) ==
    {<<u, c, s, o>> : u \in names, c \in cats, s \in sorts, o \in orders}

\* Users in several casings, accepted and rejected price texts
SpecIn ==
    [register |-> {<<Al>>, <<AL>>, <<Bo>>, NoArgs},
     create |-> CreateArgs({Al, AL, Bo}, {P10, PMinus5, Junk, PInf}, {Books}) \cup {NoArgs},
     get_listing |-> IdArgs({AL, Bo}, IdTexts(MaxListings)) \cup {<<Al, Junk>>, NoArgs},
     delete_listing |-> IdArgs({Al, AL, Bo}, IdTexts(MaxListings)) \cup {<<Al, Junk>>, NoArgs},
     get_category |-> {<<Al, Books, SORT_PRICE, ASC>>, NoArgs},
     get_top_category |-> {<<Al>>, NoArgs},
     times |-> {0},
     cap |-> MaxListings]

Next ==
    \/ Register(SpecIn)
    \/ CreateListing(SpecIn)
    \/ GetListing(SpecIn)
    \/ DeleteListing(SpecIn)
    \/ GetCategory(SpecIn)
    \/ GetTopCategory(SpecIn)

Spec == Init /\ [][Next]_vars

\* One user, three category names (the empty one among them)
TopIn ==
    [register |-> {<<Al>>, NoArgs},
     create |-> CreateArgs({Al}, {P10}, {NoName, Books, Tools}) \cup {NoArgs},
     get_listing |-> {<<Al, Str(FirstListingId)>>},
     delete_listing |-> IdArgs({Al}, IdTexts(MaxTopListings)),
     get_category |-> {<<Al, NoName, SORT_PRICE, ASC>>},
     get_top_category |-> {<<Al>>, <<Bo>>, NoArgs},
     times |-> {0},
     cap |-> MaxTopListings]

NextTop ==
    \/ Register(TopIn)
    \/ CreateListing(TopIn)
    \/ GetListing(TopIn)
    \/ DeleteListing(TopIn)
    \/ GetCategory(TopIn)
    \/ GetTopCategory(TopIn)

SpecTop == Init /\ [][NextTop]_vars

\* One user, prices that tie and differ, clock readings one second apart
SortIn ==
    [register |-> {<<Al>>},
     create |-> CreateArgs({Al}, {P10, P20, PNan}, {Books}),
     get_listing |-> {<<Al, Str(FirstListingId)>>},
     delete_listing |-> IdArgs({Al}, IdTexts(MaxSortListings)),
     get_category |-> CategoryArgs({Al}, {Books}, {SORT_PRICE, SORT_TIME}, {ASC, DSC})
                      \cup {<<Al, Tools, SORT_PRICE, ASC>>},
     get_top_category |-> {<<Al>>},
     times |-> {1, 2},
     cap |-> MaxSortListings]

NextSort ==
    \/ Register(SortIn)
    \/ CreateListing(SortIn)
    \/ GetListing(SortIn)
    \/ DeleteListing(SortIn)
    \/ GetCategory(SortIn)
    \/ GetTopCategory(SortIn)

SpecSort == Init /\ [][NextSort]_vars

\* One user, prices with decimals under titles that tell them apart, sort
\* types and orders that are none, a category that is never created
PriceIn ==
    [register |-> {<<Al>>},
     create |-> {<<Al, Title, Description, P19_99, Books>>,
                 <<Al, Title2, Description, P19_5, Books>>,
                 <<Al, Title3, Description, P20, Books>>},
     get_listing |-> IdArgs({Al}, IdTexts(MaxListings)),
     delete_listing |-> IdArgs({Al}, IdTexts(MaxListings)),
     get_category |-> CategoryArgs({Al}, {Books}, {SORT_PRICE}, {ASC, DSC})
                      \cup CategoryArgs({Al}, {Books, Tools}, {Junk}, {ASC, Junk})
                      \cup {<<Al, Books, SORT_TIME, Junk>>, <<Al, Tools, SORT_PRICE, ASC>>},
     get_top_category |-> {<<Al>>},
     times |-> {0},
     cap |-> MaxListings]

NextPrice ==
    \/ Register(PriceIn)
    \/ CreateListing(PriceIn)
    \/ GetListing(PriceIn)
    \/ DeleteListing(PriceIn)
    \/ GetCategory(PriceIn)
    \/ GetTopCategory(PriceIn)

SpecPrice == Init /\ [][NextPrice]_vars

\* Two users, one of them registered, creating and deleting under three
\* casings; category names that differ in case; creations that fail
NamesIn ==
    [register |-> {<<Al>>, <<Bo>>},
     create |-> {<<al, Title, Description, P10, Books>>,
                 <<al, Title, Description, P10, BooksCap>>,
                 <<Bo, Title, Description, P10, Tools>>,
                 <<al, Title, Description, PMinus5, Tools>>},
     get_listing |-> {<<AL, Str(FirstListingId)>>},
     delete_listing |-> IdArgs({AL, Bo}, IdTexts(MaxListings)),
     get_category |-> {<<Al, BooksCap, SORT_TIME, ASC>>, <<Bo, Tools, SORT_TIME, ASC>>},
     get_top_category |-> {<<Bo>>},
     times |-> {0},
     cap |-> MaxListings]

NextNames ==
    \/ Register(NamesIn)
    \/ CreateListing(NamesIn)
    \/ GetListing(NamesIn)
    \/ DeleteListing(NamesIn)
    \/ GetCategory(NamesIn)
    \/ GetTopCategory(NamesIn)

SpecNames == Init /\ [][NextNames]_vars

\* One user in two casings, two categories, creations and deletions that
\* are refused and that are carried out access by access
StepsIn ==
    [register |-> {<<Al>>},
     create |-> {<<Al, Title, Description, P10, Books>>,
                 <<AL, Title, Description, P10, Tools>>,
                 <<Al, Title, Description, PMinus5, Books>>},
     delete_listing |-> IdArgs({Al, Bo}, IdTexts(MaxListings)),
     times |-> {0},
     cap |-> MaxListings]

NextSteps ==
    \/ Register(StepsIn)
    \/ \E p \in Threads :
          \/ Create_begin(p, StepsIn)
          \/ Create_read_next_id(p)
          \/ Create_bump_next_id(p)
          \/ Create_save_listing(p)
          \/ Create_add_to_user(p)
          \/ Create_save_user(p)
          \/ Create_get_category(p)
          \/ Create_add_to_category(p)
          \/ Create_save_category(p)
          \/ Create_return(p)
          \/ Delete_begin(p, StepsIn)
          \/ Delete_get_user(p)
          \/ Delete_remove_from_user(p)
          \/ Delete_save_user(p)
          \/ Delete_get_category(p)
          \/ Delete_remove_from_category(p)
          \/ Delete_save_category(p)
          \/ Delete_delete_listing(p)
          \/ Delete_return(p)

SpecSteps == Init /\ [][NextSteps]_vars

\* Two threads handling CREATE_LISTING and DELETE_LISTING of one user on one
\* category, with and without a command excluding every other
RaceIn ==
    [register |-> {<<Al>>},
     create |-> {<<Al, Title, Description, P10, Books>>},
     delete_listing |-> IdArgs({Al}, IdTexts(MaxRaceListings)),
     times |-> {0},
     cap |-> MaxRaceListings]

InitRace ==
    /\ exclusive \in BOOLEAN
    /\ proc = [p \in Workers |-> Idle]
    /\ users = EmptyRepo.users
    /\ listings = EmptyRepo.listings
    /\ categories = EmptyRepo.categories
    /\ next_listing_id = EmptyRepo.next_listing_id
    /\ cmd = [name |-> "", args |-> <<>>]
    /\ result = NoOutcome
    /\ running = TRUE
    /\ issued = <<>>
    /\ registered = {}
    /\ deleted = {}
    /\ priced = <<>>

NextRace ==
    \/ Register(RaceIn)
    \/ \E p \in Workers :
          \/ Create_begin(p, RaceIn)
          \/ Create_read_next_id(p)
          \/ Create_bump_next_id(p)
          \/ Create_save_listing(p)
          \/ Create_add_to_user(p)
          \/ Create_save_user(p)
          \/ Create_get_category(p)
          \/ Create_add_to_category(p)
          \/ Create_save_category(p)
          \/ Create_return(p)
          \/ Delete_begin(p, RaceIn)
          \/ Delete_get_user(p)
          \/ Delete_remove_from_user(p)
          \/ Delete_save_user(p)
          \/ Delete_get_category(p)
          \/ Delete_remove_from_category(p)
          \/ Delete_save_category(p)
          \/ Delete_delete_listing(p)
          \/ Delete_return(p)

SpecRace == InitRace /\ [][NextRace]_vars

(***************************************************************************)
(* Properties.                                                             *)
(***************************************************************************)
\* every username text the specifications send, in every letter case
AllNames == {Al, AL, <<97, 108>>, <<97, 76>>, Bo, <<66, 79>>, <<98, 111>>, <<98, 79>>}

ExistingNames == {u \in AllNames : User_exists(Repo, u)}

NotFound == Error("Error - not found")
DoesNotExist == Error("Error - listing does not exist")

\* C1: a listing that DELETE_LISTING answered "Success" to is gone for good:
\* its ID is in no user's and no category's listing-ID set, it has no record,
\* every GET_LISTING on it by an existing user answers "Error - not found"
\* and every further DELETE_LISTING "Error - listing does not exist".
C1_DeletedListingIsGone ==
    \A id \in deleted :
        /\ id \notin DOMAIN listings
        /\ \A k \in DOMAIN users : id \notin users[k].listing_ids
        /\ \A c \in DOMAIN categories : id \notin categories[c].listing_ids
        /\ \A u \in ExistingNames :
            /\ ListingCommand_get_listing(Repo, <<u, Str(id)>>).res = NotFound
            /\ ListingCommand_delete_listing(Repo, <<u, Str(id)>>) = Handled(Repo, DoesNotExist)
        /\ (/\ cmd.name = "GET_LISTING"
            /\ Len(cmd.args) = 2
            /\ cmd.args[1] \in ExistingNames
            /\ cmd.args[2] = Str(id)) => result = NotFound
        /\ (/\ cmd.name = "DELETE_LISTING"
            /\ Len(cmd.args) = 2
            /\ cmd.args[1] \in ExistingNames
            /\ cmd.args[2] = Str(id)) => result \in {Success, DoesNotExist}

\* C1 witness: a listing of a category was deleted by its owner and a later
\* GET_LISTING on its ID by an existing user was answered
C1_Witness ==
    /\ deleted # {}
    /\ cmd.name = "GET_LISTING"
    /\ Len(cmd.args) = 2
    /\ cmd.args[1] \in ExistingNames
    /\ ParseInt(cmd.args[2]).ok
    /\ ParseInt(cmd.args[2]).v \in deleted
    /\ result = NotFound

\* the IDs CREATE_LISTING returned are strictly increasing from 100001, so
\* none is issued twice, also after deletions; the counter is greater than
\* every ID issued
C2_IssuedIncrease ==
    /\ \A i \in 1..Len(issued) : issued[i] < next_listing_id
    /\ \A i, j \in 1..Len(issued) : i < j => issued[i] < issued[j]
    /\ Len(issued) > 0 => issued[1] = 100001

\* C2: the IDs CREATE_LISTING returned are strictly increasing from 100001
\* and never issued twice, also after the listing created last is deleted;
\* the counter is greater than every ID issued and never decreases.
C2_IdsIncrease == []C2_IssuedIncrease /\ [][next_listing_id' >= next_listing_id]_vars

\* C2 witness: the listing created last was deleted and another created since
C2_Witness ==
    /\ Len(issued) >= 2
    /\ issued[Len(issued) - 1] \in deleted
    /\ cmd.name = "CREATE_LISTING"
    /\ result.kind = "id"

\* the price texts of the specifications that are negative or no number
RejectedPrices == {PMinus5, Junk}

\* C3: CREATE_LISTING with a negative or non-numeric price answers
\* "Error - invalid price" and changes nothing in the repository
C3_InvalidPriceChangesNothing ==
    [][(/\ cmd'.name = "CREATE_LISTING"
        /\ Len(cmd'.args) = 5
        /\ cmd'.args[4] \in RejectedPrices)
       => (/\ result' = Error("Error - invalid price")
           /\ UNCHANGED repoVars)]_vars

\* C3 witness: a user with a listing was refused a negative price
C3_Witness ==
    /\ cmd.name = "CREATE_LISTING"
    /\ Len(cmd.args) = 5
    /\ cmd.args[4] = PMinus5
    /\ User_exists(Repo, cmd.args[1])
    /\ DOMAIN listings # {}
    /\ result = Error("Error - invalid price")

\* Equality up to letter case, character by character
IsLetter(c) == c \in (65..90) \cup (97..122)
SameLetter(a, b) == a = b \/ (IsLetter(a) /\ IsLetter(b) /\ (a = b + 32 \/ b = a + 32))
EqualIgnoringCase(s, t) ==
    Len(s) = Len(t) /\ \A i \in 1..Len(s) : SameLetter(s[i], t[i])

OwnerMismatch == Error("Error - listing owner mismatch")

\* the DELETE_LISTING taken by this step names a stored listing whose owner
\* differs, also up to letter case, from the existing user who asks
DeleteByAnotherUser ==
    /\ cmd'.name = "DELETE_LISTING"
    /\ Len(cmd'.args) = 2
    /\ cmd'.args[1] \in ExistingNames
    /\ ParseInt(cmd'.args[2]).ok
    /\ ParseInt(cmd'.args[2]).v \in DOMAIN listings
    /\ ~EqualIgnoringCase(listings[ParseInt(cmd'.args[2]).v].username, cmd'.args[1])

\* C4: DELETE_LISTING by an existing user who is not the owner answers
\* "Error - listing owner mismatch" and changes nothing: the record and the
\* owner's and the category's listing-ID sets keep the listing, and a
\* GET_LISTING on that ID by an existing user returns its line.
C4_MismatchKeepsListingRetrievable ==
    [][DeleteByAnotherUser =>
        LET id == ParseInt(cmd'.args[2]).v IN
        /\ result' = OwnerMismatch
        /\ UNCHANGED repoVars
        /\ id \in DOMAIN listings'
        /\ id \in users'[Lower(listings[id].username)].listing_ids
        /\ id \in categories'[listings[id].category].listing_ids
        /\ \A u \in ExistingNames :
              ListingCommand_get_listing(Repo', <<u, Str(id)>>).res.kind = "lines"]_vars

DuplicateUser == Error("Error - user already existing")

\* every registered username has exactly one record, in its own casing
OneRecordPerUser ==
    \A r \in registered :
        LET ks == {k \in DOMAIN users : EqualIgnoringCase(users[k].username, r)} IN
        /\ Cardinality(ks) = 1
        /\ \A k \in ks : k = Lower(r) /\ users[k].username = r

\* C5: REGISTER of a username equal up to letter case to a registered one
\* answers "Error - user already existing" and leaves the one stored record
\* as it was, the casing of the first registration and the listing-ID set
\* included.
C5_DuplicateRegisterChangesNothing ==
    /\ []OneRecordPerUser
    /\ [][(/\ cmd'.name = "REGISTER"
           /\ Len(cmd'.args) = 1
           /\ \E r \in registered : EqualIgnoringCase(r, cmd'.args[1]))
          => (/\ result' = DuplicateUser
              /\ UNCHANGED repoVars
              /\ registered' = registered)]_vars

\* C5 witness: a user with a listing was registered again in another casing
C5_Witness ==
    /\ cmd.name = "REGISTER"
    /\ Len(cmd.args) = 1
    /\ result = DuplicateUser
    /\ cmd.args[1] \notin registered
    /\ \E k \in DOMAIN users :
          /\ EqualIgnoringCase(users[k].username, cmd.args[1])
          /\ users[k].listing_ids # {}

NeverSent == <<67, 121>>    \* "Cy"

\* C6: exists(v) is true exactly of the names v equal up to letter case to a
\* username some REGISTER answered "Success" to, whatever commands followed
C6_ExistsIffRegistered ==
    \A v \in AllNames \cup {NeverSent} :
        User_exists(Repo, v) <=> \E u \in registered : EqualIgnoringCase(u, v)

\* C6 witness: after a registration, a creation and a deletion, a casing
\* that was never registered exists, and another name does not
C6_Witness ==
    /\ cmd.name = "DELETE_LISTING"
    /\ result = Success
    /\ \E v \in AllNames \ registered : User_exists(Repo, v)
    /\ \E v \in AllNames : ~User_exists(Repo, v)

\* the number of stored listings whose category is c
LiveCount(c) == Cardinality({id \in DOMAIN listings : listings[id].category = c})
Populated == {c \in DOMAIN categories : LiveCount(c) > 0}

TopAsked ==
    /\ cmd.name = "GET_TOP_CATEGORY"
    /\ Len(cmd.args) = 1
    /\ cmd.args[1] \in ExistingNames

\* C7: GET_TOP_CATEGORY by an existing user returns the name of a category
\* with the greatest number of live listings among those that have any, and
\* among several such the lexicographically greatest name.
C7_TopIsGreatestCountThenName ==
    (TopAsked /\ Populated # {}) =>
        /\ result.kind = "category"
        /\ result.text \in Populated
        /\ \A c \in Populated :
              /\ LiveCount(c) <= LiveCount(result.text)
              /\ LiveCount(c) = LiveCount(result.text) => ~StrLess(result.text, c)

NoCategories == Error("Error - no categories found")

\* C8: GET_TOP_CATEGORY by an existing user answers "Error - no categories
\* found" if and only if no category has a listing; when one has, whatever
\* its name, the answer is a category name.
C8_NoCategoriesIffNonePopulated ==
    TopAsked =>
        /\ result = NoCategories <=> Populated = {}
        /\ Populated # {} => result.kind = "category"

LiveIn(c) == {id \in DOMAIN listings : listings[id].category = c}

CategoryAsked ==
    /\ cmd.name = "GET_CATEGORY"
    /\ Len(cmd.args) = 4
    /\ cmd.args[1] \in ExistingNames
    /\ cmd.args[3] \in {SORT_PRICE, SORT_TIME}
    /\ cmd.args[4] \in {ASC, DSC}
    /\ LiveIn(cmd.args[2]) # {}

KeyLess(a, b, sort_type) ==
    IF sort_type = SORT_PRICE THEN FloatLess(listings[a].price, listings[b].price)
    ELSE listings[a].creation_time < listings[b].creation_time

\* the lines are those of the listings ids, in that order, and the keys
\* never fall (asc) or never rise (dsc) along it
LinesInOrder(lines, ids, sort_type, order) ==
    /\ Len(lines) = Len(ids)
    /\ \A i \in 1..Len(ids) : lines[i] = Listing_to_output_string(listings[ids[i]]).line
    /\ \A i, j \in 1..Len(ids) :
          i < j => IF order = ASC THEN ~KeyLess(ids[j], ids[i], sort_type)
                   ELSE ~KeyLess(ids[i], ids[j], sort_type)

\* C9: GET_CATEGORY by an existing user, with a valid sort type and order, on
\* a category with a live listing returns one line for each live listing of
\* the category and for nothing else, ordered by the chosen key.
C9_OneLinePerListingInKeyOrder ==
    CategoryAsked =>
        /\ result.kind = "lines"
        /\ \E ids \in Orders(LiveIn(cmd.args[2])) :
              LinesInOrder(result.lines, ids, cmd.args[3], cmd.args[4])

Reversed(lines, other) ==
    /\ Len(lines) = Len(other)
    /\ \A i \in 1..Len(lines) : lines[i] = other[Len(other) + 1 - i]

OtherOrder(order) == IF order = ASC THEN DSC ELSE ASC

\* C10: when GET_CATEGORY returned lines, the same command with the other
\* order, in the same repository state (and so with the same iteration order
\* of the category's set), returns the same lines in reverse order, the
\* lines of listings with equal keys included.
C10_DescendingIsAscendingReversed ==
    (CategoryAsked /\ result.kind = "lines") =>
        \A o \in SortChoices(Repo, cmd.args) :
            result = CategoryCommand_get_category(Repo, cmd.args, o[1], o[2]).res =>
                LET other == CategoryCommand_get_category(Repo,
                                 [cmd.args EXCEPT ![4] = OtherOrder(cmd.args[4])],
                                 o[1], o[2]).res
                IN  /\ other.kind = "lines"
                    /\ Reversed(other.lines, result.lines)

\* C10 witness: "dsc" returned three lines, two of them of listings with
\* equal prices and different lines
C10_Witness ==
    /\ CategoryAsked
    /\ cmd.args[3] = SORT_PRICE
    /\ cmd.args[4] = DSC
    /\ result.kind = "lines"
    /\ Len(result.lines) = 3
    /\ \E a, b \in LiveIn(cmd.args[2]) :
          /\ a # b
          /\ listings[a].price = listings[b].price
          /\ Listing_to_output_string(listings[a]).line
                # Listing_to_output_string(listings[b]).line
    /\ result.lines[1] # result.lines[3]

UnknownUser == Error("Error - unknown user")

\* the commands whose first argument is the username of the requester
UsernameCommands ==
    {"CREATE_LISTING", "GET_LISTING", "DELETE_LISTING", "GET_CATEGORY", "GET_TOP_CATEGORY"}

\* the number of arguments each command takes
Arity(name) ==
    CASE name = "REGISTER" -> 1
      [] name = "CREATE_LISTING" -> 5
      [] name = "GET_LISTING" -> 2
      [] name = "DELETE_LISTING" -> 2
      [] name = "GET_CATEGORY" -> 4
      [] name = "GET_TOP_CATEGORY" -> 1
      [] OTHER -> 0

\* the command taken by this step has the right number of arguments and
\* names a requester who does not exist
ByUnknownUser ==
    /\ cmd'.name \in UsernameCommands
    /\ Len(cmd'.args) = Arity(cmd'.name)
    /\ ~User_exists(Repo, cmd'.args[1])

\* C11: a command that takes a username, sent with the right number of
\* arguments by a user who does not exist, answers "Error - unknown user"
\* whatever its other arguments are (an invalid price, an unparsable listing
\* ID, an invalid sort type or order).
C11_UnknownUserBeforeValidation ==
    [][ByUnknownUser => result' = UnknownUser]_vars

\* what a handler returns: a success payload or a string that begins with
\* "Error - "
ReturnedKinds == {"success", "error", "id", "category", "lines"}

\* C12: every command ends with one string returned by its handler, a success
\* payload or an "Error - " string, and the command loop goes on reading: no
\* exception leaves a handler, and none ends the process.
C12_EveryCommandReturnsAndLoopGoesOn ==
    /\ running
    /\ cmd.name # "" => result.kind \in ReturnedKinds

\* a price text of digits with an optional decimal point
IsDecimal(price) ==
    LET dot == DotAt(price)
        whole == IF dot = 0 THEN price ELSE SubSeq(price, 1, dot - 1)
        frac == IF dot = 0 THEN <<>> ELSE SubSeq(price, dot + 1, Len(price))
    IN  AllDigits(whole) /\ AllDigits(frac) /\ Len(whole) > 0

\* the digits before and after the decimal point
WholePart(price) ==
    IF DotAt(price) = 0 THEN price ELSE SubSeq(price, 1, DotAt(price) - 1)
FractionPart(price) ==
    IF DotAt(price) = 0 THEN <<>> ELSE SubSeq(price, DotAt(price) + 1, Len(price))

PadTo(digits, n) == digits \o [i \in 1..(n - Len(digits)) |-> 48]

\* p < q for two decimal price texts, compared as numbers
DecimalLess(p, q) ==
    LET n == IF Len(FractionPart(p)) > Len(FractionPart(q))
             THEN Len(FractionPart(p)) ELSE Len(FractionPart(q))
    IN  \/ DigitsValue(WholePart(p)) < DigitsValue(WholePart(q))
        \/ /\ DigitsValue(WholePart(p)) = DigitsValue(WholePart(q))
           /\ StrLess(PadTo(FractionPart(p), n), PadTo(FractionPart(q), n))

\* the price field of a line for a listing created with the price text p
ShownPrice(p) == Str(DigitsValue(WholePart(p)))

DecimalPriced == \A id \in DOMAIN listings : IsDecimal(priced[id])

\* the lines are those of the listings ids, each showing the integer part of
\* the price it was created with, and along a sort by price the prices as
\* written never fall (asc) or never rise (dsc)
LinesShowAndFollowPrices(lines, ids, sort_type, order) ==
    /\ Len(lines) = Len(ids)
    /\ \A i \in 1..Len(ids) :
          /\ lines[i] = Listing_to_output_string(listings[ids[i]]).line
          /\ lines[i][3] = ShownPrice(priced[ids[i]])
    /\ sort_type = SORT_PRICE =>
          \A i, j \in 1..Len(ids) :
              i < j => IF order = ASC THEN ~DecimalLess(priced[ids[j]], priced[ids[i]])
                       ELSE ~DecimalLess(priced[ids[i]], priced[ids[j]])

\* C13: the line GET_LISTING and GET_CATEGORY return for a listing created
\* with a decimal price shows the integer part of that price (19.99 as 19),
\* and GET_CATEGORY sorted by price orders the lines by the prices as they
\* were written (19.5 before 19.99 in "asc" although both show 19).
C13_PriceShownTruncatedSortedExactly ==
    DecimalPriced =>
        /\ (/\ cmd.name = "GET_LISTING"
            /\ result.kind = "lines") =>
               result.lines[1][3] = ShownPrice(priced[ParseInt(cmd.args[2]).v])
        /\ (CategoryAsked /\ result.kind = "lines") =>
               \E ids \in Orders(LiveIn(cmd.args[2])) :
                   LinesShowAndFollowPrices(result.lines, ids, cmd.args[3], cmd.args[4])

\* C13 witness: "asc" by price returned the line of the listing created with
\* 19.5 before that of the one created earlier with 19.99, both showing 19
C13_Witness ==
    /\ CategoryAsked
    /\ cmd.args[3] = SORT_PRICE
    /\ cmd.args[4] = ASC
    /\ result.kind = "lines"
    /\ Len(result.lines) = 2
    /\ result.lines[1][3] = <<49, 57>>
    /\ result.lines[2][3] = <<49, 57>>
    /\ \E a, b \in DOMAIN listings :
          /\ a < b
          /\ priced[a] = P19_99
          /\ priced[b] = P19_5
          /\ result.lines[1] = Listing_to_output_string(listings[b]).line
          /\ result.lines[2] = Listing_to_output_string(listings[a]).line
    /\ result.lines[1] # result.lines[2]

CategoryNotFound == Error("Error - category not found")

\* the categories that have a record and no stored listing
Emptied == {c \in DOMAIN categories : LiveIn(c) = {}}

\* sort types and orders, valid and not
SortTexts == {SORT_PRICE, SORT_TIME, Junk}
OrderTexts == {ASC, DSC, Junk}

\* a category whose listings are all deleted has a record with an empty
\* listing-ID set, and GET_CATEGORY on it answers as on a name never created
EmptiedIsNotFound ==
    \A c \in Emptied :
        /\ categories[c].listing_ids = {}
        /\ NeverSent \notin DOMAIN categories
        /\ \A u \in ExistingNames, s \in SortTexts, o \in OrderTexts :
              /\ CategoryCommand_get_category(Repo, <<u, c, s, o>>, <<>>, <<>>).res
                    = CategoryNotFound
              /\ CategoryCommand_get_category(Repo, <<u, NeverSent, s, o>>, <<>>, <<>>).res
                    = CategoryNotFound
        /\ (/\ cmd.name = "GET_CATEGORY"
            /\ Len(cmd.args) = 4
            /\ cmd.args[1] \in ExistingNames
            /\ cmd.args[2] = c) => result = CategoryNotFound

\* the DELETE_LISTING taken by this step removes a stored listing
DeletesListing ==
    /\ cmd'.name = "DELETE_LISTING"
    /\ result' = Success

\* C14: when every listing of a category has been deleted the category
\* record stays in the repository with an empty listing-ID set, and
\* GET_CATEGORY on it by an existing user answers "Error - category not
\* found", as on a name never created, whatever the sort type and order.
C14_EmptiedCategoryIsKeptAndNotFound ==
    /\ []EmptiedIsNotFound
    /\ [][DeletesListing =>
            LET c == listings[ParseInt(cmd'.args[2]).v].category IN
            /\ c \in DOMAIN categories'
            /\ categories'[c].listing_ids
                  = categories[c].listing_ids \ {ParseInt(cmd'.args[2]).v}]_vars

\* C14 witness: the listings of a category were deleted and GET_CATEGORY on
\* it, with a sort type and an order that are none, was answered
C14_Witness ==
    /\ deleted # {}
    /\ cmd.name = "GET_CATEGORY"
    /\ Len(cmd.args) = 4
    /\ cmd.args[1] \in ExistingNames
    /\ cmd.args[2] \in Emptied
    /\ cmd.args[3] \notin {SORT_PRICE, SORT_TIME}
    /\ cmd.args[4] \notin {ASC, DSC}
    /\ result = CategoryNotFound

\* the CREATE_LISTING taken by this step returned an ID
CreatesListing ==
    /\ cmd'.name = "CREATE_LISTING"
    /\ Len(cmd'.args) = 5
    /\ result'.kind = "id"

\* C15: the category records are those of the category arguments, letter
\* case included, of the CREATE_LISTING commands that returned an ID: a step
\* adds a record only if it is such a command, and then under that argument;
\* no failed command and no GET_* command adds one, and none is ever removed.
C15_CategoriesOnlyFromCreations ==
    /\ [](\A c \in DOMAIN categories : categories[c].name = c)
    /\ [][/\ DOMAIN categories \subseteq DOMAIN categories'
          /\ CreatesListing => DOMAIN categories' = DOMAIN categories \cup {cmd'.args[5]}
          /\ ~CreatesListing => DOMAIN categories' = DOMAIN categories]_vars

\* C15 witness: a CREATE_LISTING that failed named a category which has no
\* record, while a category left without listings has kept its own
C15_Witness ==
    /\ cmd.name = "CREATE_LISTING"
    /\ Len(cmd.args) = 5
    /\ result.kind = "error"
    /\ cmd.args[5] \notin DOMAIN categories
    /\ Emptied # {}
    /\ \E c \in DOMAIN categories : c # Lower(c)

\* C16: the three stores agree.  Every stored listing has an owner who
\* exists, its ID is in the listing-ID set of that user and of the category
\* its record names and in no other set; every ID in a user's or a
\* category's set is that of a stored listing of that user (up to letter
\* case) or of that category.
C16_StoresConsistent ==
    /\ \A id \in DOMAIN listings :
          /\ listings[id].listing_id = id
          /\ User_exists(Repo, listings[id].username)
          /\ \A k \in DOMAIN users :
                id \in users[k].listing_ids
                    <=> EqualIgnoringCase(users[k].username, listings[id].username)
          /\ listings[id].category \in DOMAIN categories
          /\ \A c \in DOMAIN categories :
                id \in categories[c].listing_ids <=> c = listings[id].category
    /\ \A k \in DOMAIN users : \A id \in users[k].listing_ids :
          /\ id \in DOMAIN listings
          /\ EqualIgnoringCase(listings[id].username, users[k].username)
    /\ \A c \in DOMAIN categories : \A id \in categories[c].listing_ids :
          /\ id \in DOMAIN listings
          /\ listings[id].category = c

\* C16 witness: two users and two categories, a listing deleted and another
\* stored whose owner was written in another casing than the user's record
C16_Witness ==
    /\ deleted # {}
    /\ Cardinality(DOMAIN users) = 2
    /\ Cardinality(DOMAIN categories) = 2
    /\ \E id \in DOMAIN listings :
          listings[id].username # users[Lower(listings[id].username)].username

\* the IDs in the listing-ID set of any user or category, the Category a
\* thread has constructed and not saved yet included
IdsInSets ==
    UNION ({users[k].listing_ids : k \in DOMAIN users}
           \cup {categories[c].listing_ids : c \in DOMAIN categories}
           \cup {proc[p].category_obj.listing_ids : p \in Threads})

\* C17: with create and delete taken one repository access at a time, in
\* every state between the accesses every ID in a user's or a category's
\* listing-ID set is the ID of a stored listing record: an ID enters a set
\* only after its record is stored, and a record is removed only after its
\* ID has left every set.
C17_NoDanglingIdBetweenWrites ==
    /\ [](IdsInSets \subseteq DOMAIN listings)
    /\ [][/\ (IdsInSets' \ IdsInSets) \subseteq DOMAIN listings
          /\ (DOMAIN listings \ DOMAIN listings') \cap IdsInSets = {}]_vars

\* C17 witness: in the middle of a deletion the ID has left the user's and
\* the category's set while the record is still stored, beside a listing
\* that is in both sets
C17_Witness ==
    \E p \in Threads :
        /\ proc[p].op = "delete"
        /\ proc[p].pc = "delete_listing"
        /\ proc[p].listing_id \in DOMAIN listings
        /\ proc[p].listing_id \notin IdsInSets
        /\ IdsInSets # {}

\* the DELETE_LISTING taken by this step is sent by an existing user and
\* names a stored listing
DeleteOfStoredListing ==
    /\ cmd'.name = "DELETE_LISTING"
    /\ Len(cmd'.args) = 2
    /\ cmd'.args[1] \in ExistingNames
    /\ ParseInt(cmd'.args[2]).ok
    /\ ParseInt(cmd'.args[2]).v \in DOMAIN listings

\* C18: DELETE_LISTING by an existing user on a stored listing answers
\* "Success" if and only if the requester's name and the name the listing
\* was created with are equal up to letter case, and otherwise "Error -
\* listing owner mismatch"; a deletion removes the record and takes the ID
\* out of the one user record, stored under the lowercase name, leaving
\* that record's username and every other user record as they were.
C18_OwnershipIgnoresCase ==
    [][DeleteOfStoredListing =>
        LET id == ParseInt(cmd'.args[2]).v
            k == Lower(cmd'.args[1])
        IN  /\ result' = Success
                  <=> EqualIgnoringCase(listings[id].username, cmd'.args[1])
            /\ result' # Success => result' = OwnerMismatch /\ UNCHANGED repoVars
            /\ result' = Success =>
                  /\ id \notin DOMAIN listings'
                  /\ DOMAIN users' = DOMAIN users
                  /\ users'[k] = [users[k] EXCEPT !.listing_ids = @ \ {id}]
                  /\ id \in users[k].listing_ids
                  /\ \A j \in DOMAIN users \ {k} : users'[j] = users[j]]_vars

\* C18 witness: a user registered as "Al", whose listings are created as
\* "al", has deleted one of them as "AL" and still has another
C18_Witness ==
    /\ cmd.name = "DELETE_LISTING"
    /\ result = Success
    /\ cmd.args[1] = AL
    /\ Al \in registered
    /\ users[al].username = Al
    /\ ParseInt(cmd.args[2]).v \notin users[al].listing_ids
    /\ \E id \in users[al].listing_ids : listings[id].username = al

\* the commands that only read
GetCommands == {"GET_LISTING", "GET_CATEGORY", "GET_TOP_CATEGORY"}

\* C19: a command whose answer begins with "Error - " (returned by the
\* handler, or printed by the loop for a ValueError) leaves the users, the
\* listings, the categories, every listing-ID set and the ID counter as they
\* were, and so does every GET_LISTING, GET_CATEGORY and GET_TOP_CATEGORY,
\* whatever it answers.
C19_ErrorsAndReadsChangeNothing ==
    [][(\/ result'.kind \in {"error", "ValueError"}
        \/ cmd'.name \in GetCommands) => UNCHANGED repoVars]_vars

\* C19 witness: REGISTER of a user who has a listing was refused
C19_Witness ==
    /\ cmd.name = "REGISTER"
    /\ result = DuplicateUser
    /\ users[Lower(cmd.args[1])].listing_ids # {}
    /\ deleted # {}

\* C20: the counter is 100001 plus the number of CREATE_LISTING commands
\* that returned an ID, and the n-th of them returned 100000 + n, whatever
\* refused creations, deletions and other commands came between.
C20_CounterCountsCreations ==
    /\ next_listing_id = 100001 + Len(issued)
    /\ \A n \in 1..Len(issued) : issued[n] = 100000 + n

\* C20 witness: after a creation and a deletion, a CREATE_LISTING by a user
\* who does not exist was refused and the counter stands at 100002
C20_Witness ==
    /\ cmd.name = "CREATE_LISTING"
    /\ Len(cmd.args) = 5
    /\ result = UnknownUser
    /\ Len(issued) = 1
    /\ deleted # {}
    /\ next_listing_id = 100002

\* C21: the owner stored in a listing, and shown as the last field of its
\* line, is the username of the owning user's record, in the casing of the
\* registration, whatever casing CREATE_LISTING was sent with.
C21_OwnerInRegisteredCasing ==
    \A id \in DOMAIN listings :
        /\ User_exists(Repo, listings[id].username)
        /\ listings[id].username = Repository_get_user(Repo, listings[id].username).username
        /\ Listing_to_output_string(listings[id]).line[6]
              = Repository_get_user(Repo, listings[id].username).username

\* no ID was returned by two creations
IssuedOnce == \A i, j \in 1..Len(issued) : i # j => issued[i] # issued[j]

\* what holds of every state a run of whole commands, one after another,
\* reaches: IDs are unique and counted, and the three stores agree
AsAfterWholeCommands ==
    /\ IssuedOnce
    /\ next_listing_id = FirstListingId + Len(issued)
    /\ C16_StoresConsistent

Busy == {p \in DOMAIN proc : proc[p].pc # "idle"}

=============================================================================
